---------------------------- MODULE Spec2Model ----------------------------
(***************************************************************************)
(* Model of design/codegen.go of goa: the identifier sanitizer Goify and   *)
(* the type lowering functions SourceCode, TypeDef and GoTypeName.         *)
(*                                                                         *)
(* A Go string is modelled as the sequence of its bytes (0..255), a rune   *)
(* as its code point.  Each run of the model is one call: Init draws the   *)
(* function's arguments, the call action computes what the code returns.   *)
(***************************************************************************)
EXTENDS Naturals, Sequences, FiniteSets, TLC

VARIABLES
    pc,          \* "call" before the function has run, "done" after
    str,         \* Goify: argument str
    firstUpper,  \* Goify: argument firstUpper
    b,           \* Goify: contents of the buffer b when the loop ends
    res,         \* Goify: the returned string
    fn,          \* lowering: the function called
    arg,         \* lowering: its argument
    iter,        \* lowering: the order in which each map was ranged over
    ret          \* lowering: how the call ended

vars == <<pc, str, firstUpper, b, res, fn, arg, iter, ret>>

(***************************************************************************)
(* Bounds of the model.                                                    *)
(***************************************************************************)
\* Goify is run on every string over Alphabet of at most this many bytes.
MaxLen == 4

\* Arrays are nested at most this deep in the types that are lowered.
MaxDepth == 2

\* An Object that is lowered has at most this many fields.
MaxFields == 2

(***************************************************************************)
(* package unicode, restricted to the runes Goify can see: rune(str[i]) is *)
(* a code point in 0..255, and ToUpper can leave that range for U+00B5 and *)
(* U+00FF.                                                                 *)
(***************************************************************************)
\* '_'
Underscore == 95

IsDigit(r) == r \in 48..57

IsLetter(r) ==
    \/ r \in 65..90
    \/ r \in 97..122
    \/ r \in {170, 181, 186}
    \/ r \in 192..214
    \/ r \in 216..246
    \/ r \in 248..255
    \/ r \in {376, 924}

ToUpper(r) ==
    IF r \in 97..122 THEN r - 32
    ELSE IF r = 181 THEN 924
    ELSE IF r \in 224..246 \/ r \in 248..254 THEN r - 32
    ELSE IF r = 255 THEN 376
    ELSE r

ToLower(r) ==
    IF r \in 65..90 THEN r + 32
    ELSE IF r \in 192..214 \/ r \in 216..222 THEN r + 32
    ELSE IF r = 376 THEN 255
    ELSE IF r = 924 THEN 956
    ELSE r

\* bytes.Buffer.WriteRune appends the UTF-8 encoding of the rune.
EncodeRune(r) ==
    IF r < 128 THEN <<r>>
    ELSE IF r < 2048 THEN <<192 + (r \div 64), 128 + (r % 64)>>
    ELSE <<224 + (r \div 4096), 128 + ((r \div 64) % 64), 128 + (r % 64)>>

(***************************************************************************)
(* reserved golang keywords                                                *)
(***************************************************************************)
reserved ==
    {
      <<98, 121, 116, 101>>,                                         \* byte
      <<99, 111, 109, 112, 108, 101, 120, 49, 50, 56>>,              \* complex128
      <<99, 111, 109, 112, 108, 101, 120, 54, 52>>,                  \* complex64
      <<102, 108, 111, 97, 116, 51, 50>>,                            \* float32
      <<102, 108, 111, 97, 116, 54, 52>>,                            \* float64
      <<105, 110, 116>>,                                             \* int
      <<105, 110, 116, 49, 54>>,                                     \* int16
      <<105, 110, 116, 51, 50>>,                                     \* int32
      <<105, 110, 116, 54, 52>>,                                     \* int64
      <<105, 110, 116, 56>>,                                         \* int8
      <<114, 117, 110, 101>>,                                        \* rune
      <<115, 116, 114, 105, 110, 103>>,                              \* string
      <<117, 105, 110, 116, 49, 54>>,                                \* uint16
      <<117, 105, 110, 116, 51, 50>>,                                \* uint32
      <<117, 105, 110, 116, 54, 52>>,                                \* uint64
      <<117, 105, 110, 116, 56>>,                                    \* uint8
      <<98, 114, 101, 97, 107>>,                                     \* break
      <<99, 97, 115, 101>>,                                          \* case
      <<99, 104, 97, 110>>,                                          \* chan
      <<99, 111, 110, 115, 116>>,                                    \* const
      <<99, 111, 110, 116, 105, 110, 117, 101>>,                     \* continue
      <<100, 101, 102, 97, 117, 108, 116>>,                          \* default
      <<100, 101, 102, 101, 114>>,                                   \* defer
      <<101, 108, 115, 101>>,                                        \* else
      <<102, 97, 108, 108, 116, 104, 114, 111, 117, 103, 104>>,      \* fallthrough
      <<102, 111, 114>>,                                             \* for
      <<102, 117, 110, 99>>,                                         \* func
      <<103, 111>>,                                                  \* go
      <<103, 111, 116, 111>>,                                        \* goto
      <<105, 102>>,                                                  \* if
      <<105, 109, 112, 111, 114, 116>>,                              \* import
      <<105, 110, 116, 101, 114, 102, 97, 99, 101>>,                 \* interface
      <<109, 97, 112>>,                                              \* map
      <<112, 97, 99, 107, 97, 103, 101>>,                            \* package
      <<114, 97, 110, 103, 101>>,                                    \* range
      <<114, 101, 116, 117, 114, 110>>,                              \* return
      <<115, 101, 108, 101, 99, 116>>,                               \* select
      <<115, 116, 114, 117, 99, 116>>,                               \* struct
      <<115, 119, 105, 116, 99, 104>>,                               \* switch
      <<116, 121, 112, 101>>,                                        \* type
      <<118, 97, 114>>                                               \* var
    }

(***************************************************************************)
(* Goify                                                                   *)
(***************************************************************************)
\* The case forced on the first rune written.
FirstCaseIgnored(r, fu) == r

FirstCase(r, fu) == IF fu THEN ToUpper(r) ELSE ToLower(r)

\* The loop's variables before its first iteration.
ScanStart == [b |-> <<>>, firstWritten |-> FALSE, nextUpper |-> FALSE]

\* A variant of the loop body that leaves nextUpper alone when it writes
\* the first rune.
ScanStepKeepsMarker(st, r, fu) ==
    IF r = Underscore
    THEN [st EXCEPT !.nextUpper = TRUE]
    ELSE IF IsLetter(r) \/ IsDigit(r)
    THEN IF ~st.firstWritten
         THEN [st EXCEPT !.b = st.b \o EncodeRune(FirstCase(r, fu)),
                         !.firstWritten = TRUE]
         ELSE IF st.nextUpper
         THEN [st EXCEPT !.b = st.b \o EncodeRune(ToUpper(r)),
                         !.nextUpper = FALSE]
         ELSE [st EXCEPT !.b = st.b \o EncodeRune(r)]
    ELSE st

\* A variant of the loop body that never sets firstWritten.
ScanStepNeverWritten(st, r, fu) ==
    IF r = Underscore
    THEN [st EXCEPT !.nextUpper = TRUE]
    ELSE IF IsLetter(r) \/ IsDigit(r)
    THEN IF ~st.firstWritten
         THEN [st EXCEPT !.b = st.b \o EncodeRune(FirstCase(r, fu)),
                         !.nextUpper = FALSE]
         ELSE IF st.nextUpper
         THEN [st EXCEPT !.b = st.b \o EncodeRune(ToUpper(r)),
                         !.nextUpper = FALSE]
         ELSE [st EXCEPT !.b = st.b \o EncodeRune(r)]
    ELSE st

\* One iteration of the loop on the rune r.
ScanStep(st, r, fu) ==
    IF r = Underscore
    THEN [st EXCEPT !.nextUpper = TRUE]
    ELSE IF IsLetter(r) \/ IsDigit(r)
    THEN IF ~st.firstWritten
         THEN [st EXCEPT !.b = st.b \o EncodeRune(FirstCase(r, fu)),
                         !.firstWritten = TRUE,
                         !.nextUpper = FALSE]
         ELSE IF st.nextUpper
         THEN [st EXCEPT !.b = st.b \o EncodeRune(ToUpper(r)),
                         !.nextUpper = FALSE]
         ELSE [st EXCEPT !.b = st.b \o EncodeRune(r)]
    ELSE st

\* The loop from index i (1-based) on, started in st.
RECURSIVE GoifyScan(_, _, _, _)
GoifyScan(s, fu, i, st) ==
    IF i > Len(s) THEN st
    ELSE GoifyScan(s, fu, i + 1, ScanStep(st, s[i], fu))

\* The buffer when the loop ends.
GoifyBuffer(s, fu) == GoifyScan(s, fu, 1, ScanStart).b

\* "_v"
Placeholder == <<95, 118>>

\* The reserved-word check that never finds the word.
SuffixNever(r) == r

\* The reserved-word check: res gets "_" when it is in the table.
Suffix(r) == IF r \in reserved THEN r \o <<Underscore>> ELSE r

Goify(s, fu) ==
    LET buf == GoifyBuffer(s, fu)
    IN  IF Len(buf) = 0 THEN Placeholder ELSE Suffix(buf)

(***************************************************************************)
(* The arguments Goify is run on.                                          *)
(***************************************************************************)
\* g o G 1 _ - and the Latin-1 bytes 0xE9 (a cased letter), 0xB5 (a letter
\* whose upper case is outside Latin-1) and 0xAA (a letter without case).
Alphabet == {103, 111, 71, 49, 95, 45, 233, 181, 170}

RECURSIVE Strings(_)
Strings(n) ==
    IF n = 0 THEN {<<>>}
    ELSE LET S == Strings(n - 1)
         IN  S \cup {Append(s, c) : s \in {x \in S : Len(x) = n - 1}, c \in Alphabet}

\* A reserved word with its first letter in upper case.
Capitalized(w) == <<ToUpper(w[1])>> \o SubSeq(w, 2, Len(w))

Examples ==
    { <<117, 115, 101, 114, 95, 105, 100>>,   \* user_id
      <<95, 95, 97, 98>>,                     \* __ab
      <<49, 97, 95, 98>>,                     \* 1a_b
      <<45, 103, 45, 95, 45, 111>> }          \* -g-_-o

GoifyInputs ==
    Strings(MaxLen) \cup reserved \cup {Capitalized(w) : w \in reserved} \cup Examples

(***************************************************************************)
(* Specification: one call of Goify.                                       *)
(***************************************************************************)
InitGoify ==
    /\ pc = "call"
    /\ str \in GoifyInputs
    /\ firstUpper \in BOOLEAN
    /\ b = <<>>
    /\ res = <<>>
    /\ fn = "Goify"
    /\ arg = <<>>
    /\ iter = <<>>
    /\ ret = <<>>

GoifyCall ==
    /\ pc = "call"
    /\ b' = GoifyBuffer(str, firstUpper)
    /\ res' = Goify(str, firstUpper)
    /\ pc' = "done"
    /\ UNCHANGED <<str, firstUpper, fn, arg, iter, ret>>

NextGoify == GoifyCall

SpecGoify == InitGoify /\ [][NextGoify]_vars

(***************************************************************************)
(* The type model.  A DataType is a record with a tag: Primitive (kind),   *)
(* Array (ElemType, an attribute), Object (fields, a function from field   *)
(* names to attributes), UserType and MediaType (Name).  An attribute is a *)
(* record of its Type and of the names its required validation lists.  A   *)
(* named type points to its attribute; the model keeps that pointer as the *)
(* type's Name and the table Underlying, so that named types can refer to  *)
(* each other.                                                             *)
(***************************************************************************)
Primitive(k) == [tag |-> "Primitive", kind |-> k]

Array(a) == [tag |-> "Array", ElemType |-> a]

Object(f) == [tag |-> "Object", fields |-> f]

UserType(n) == [tag |-> "UserType", Name |-> n]

MediaType(n) == [tag |-> "MediaType", Name |-> n]

\* A DataType that is none of the above.
UnknownType == [tag |-> "Unknown"]

Attribute(t, req) == [Type |-> t, Required |-> req]

IsRequired(def, name) == name \in def.Required

IsNamed(t) == t.tag \in {"UserType", "MediaType"}

\* The named types: acct and b_id refer to each other, media to itself.
Underlying(n) ==
    IF n = <<97, 99, 99, 116>>
    THEN Attribute(Object(
             ( <<112, 101, 101, 114>> :> Attribute(UserType(<<98, 95, 105, 100>>), {}) ) @@
             ( <<105, 100>> :> Attribute(Primitive("Integer"), {}) )),
             {<<105, 100>>})
    ELSE IF n = <<98, 95, 105, 100>>
    THEN Attribute(Object(
             ( <<111, 119, 110, 101, 114>> :>
                   Attribute(Array(Attribute(UserType(<<97, 99, 99, 116>>), {})), {}) )),
             {})
    ELSE Attribute(Object(
             ( <<115, 101, 108, 102>> :> Attribute(MediaType(<<109, 101, 100, 105, 97>>), {}) )),
             {})

\* Definition() of a DataStructure: an attribute is its own definition, a
\* named type's definition is the attribute it embeds.
Definition(ds) ==
    IF "tag" \in DOMAIN ds THEN Underlying(ds.Name) ELSE ds

(***************************************************************************)
(* How a call ends: with the text it returns, with a panic, or with the    *)
(* goroutine's stack exhausted.                                            *)
(***************************************************************************)
Text(t) == [kind |-> "text", text |-> t, msg |-> ""]

Panic(m) == [kind |-> "panic", text |-> <<>>, msg |-> m]

StackOverflow == [kind |-> "overflow", text |-> <<>>, msg |-> "stack overflow"]

\* prefix + <call>: the call's panic is the caller's.
Prepend(prefix, r) == IF r.kind = "text" THEN Text(prefix \o r.text) ELSE r

\* The deepest nesting of calls the model follows.
StackLimit == MaxDepth + 4

(***************************************************************************)
(* sort.Strings: ascending order of the strings' bytes.                    *)
(***************************************************************************)
RECURSIVE StringLess(_, _)
StringLess(x, y) ==
    IF Len(y) = 0 THEN FALSE
    ELSE IF Len(x) = 0 THEN TRUE
    ELSE IF x[1] # y[1] THEN x[1] < y[1]
    ELSE StringLess(Tail(x), Tail(y))

RECURSIVE InsertSorted(_, _)
InsertSorted(x, s) ==
    IF Len(s) = 0 THEN <<x>>
    ELSE IF StringLess(x, s[1]) THEN <<x>> \o s
    ELSE <<s[1]>> \o InsertSorted(x, Tail(s))

\* The keys left in the order the map handed them out.
SortStringsSkipped(keys) == keys

RECURSIVE SortStrings(_)
SortStrings(keys) ==
    IF Len(keys) = 0 THEN <<>>
    ELSE InsertSorted(keys[1], SortStrings(Tail(keys)))

\* for n := range actual: the keys in the order this run's iteration of the
\* map with this key set yields them.
MapRange(fields, it) == it[DOMAIN fields]

(***************************************************************************)
(* SourceCode, TypeDef, GoTypeName.  d is the depth of the call.           *)
(***************************************************************************)
\* The json annotation's marker, with the test of IsRequired inverted.
OmitInverted(def, name) ==
    IF IsRequired(def, name) THEN <<44, 111, 109, 105, 116, 101, 109, 112, 116, 121>>
    ELSE <<>>

\* omit: ",omitempty" unless the definition requires the field.
Omit(def, name) ==
    IF ~IsRequired(def, name) THEN <<44, 111, 109, 105, 116, 101, 109, 112, 116, 121>>
    ELSE <<>>

\* fmt.Sprintf("\t%s %s `json:\"%s%s\"`\n", fname, typedef, name, omit)
FieldLine(fname, typedef, name, omit) ==
    <<9>> \o fname \o <<32>> \o typedef \o <<32, 96, 106, 115, 111, 110, 58, 34>>
        \o name \o omit \o <<34, 96, 10>>

RECURSIVE GoTypeName(_, _)
GoTypeName(t, d) ==
    IF d > StackLimit THEN StackOverflow
    ELSE CASE t.tag = "Primitive" ->
                 ( CASE t.kind = "Boolean" -> Text(<<98, 111, 111, 108>>)
                     [] t.kind = "Integer" -> Text(<<105, 110, 116>>)
                     [] t.kind = "Number" -> Text(<<102, 108, 111, 97, 116, 54, 52>>)
                     [] t.kind = "String" -> Text(<<115, 116, 114, 105, 110, 103>>)
                     [] OTHER -> Panic("goa bug: unknown primitive type") )
           [] t.tag = "Array" ->
                 Prepend(<<91, 93>>, GoTypeName(t.ElemType.Type, d + 1))
           [] t.tag = "Object" ->
                 Text(<<109, 97, 112, 91, 115, 116, 114, 105, 110, 103, 93,
                        105, 110, 116, 101, 114, 102, 97, 99, 101, 123, 125>>)
           [] t.tag = "UserType" -> Text(Goify(t.Name, TRUE))
           [] t.tag = "MediaType" -> Text(Goify(t.Name, TRUE))
           [] OTHER -> Panic("goa bug: unknown type")

RECURSIVE SourceCode(_, _, _)
RECURSIVE TypeDef(_, _, _)
RECURSIVE StructFields(_, _, _, _, _)

\* The loop over the sorted keys from keys[i] on: the field lines, or the
\* panic of the first TypeDef that panics.
StructFields(def, keys, i, it, d) ==
    IF i > Len(keys) THEN Text(<<>>)
    ELSE LET name == keys[i]
             typedef == TypeDef(def.Type.fields[name], it, d + 1)
         IN  IF typedef.kind # "text" THEN typedef
             ELSE Prepend(FieldLine(Goify(name, TRUE), typedef.text, name, Omit(def, name)),
                          StructFields(def, keys, i + 1, it, d))

SourceCode(ds, it, d) ==
    IF d > StackLimit THEN StackOverflow
    ELSE LET def == Definition(ds)
             t == def.Type
         IN  CASE t.tag = "Primitive" -> GoTypeName(t, d + 1)
               [] t.tag = "Array" -> Prepend(<<91, 93>>, SourceCode(t.ElemType, it, d + 1))
               [] t.tag = "Object" ->
                     LET keys == SortStrings(MapRange(t.fields, it))
                         body == StructFields(def, keys, 1, it, d)
                     IN  IF body.kind # "text" THEN body
                         ELSE Text(<<115, 116, 114, 117, 99, 116, 32, 123, 10>>
                                       \o body.text \o <<125>>)
               [] OTHER -> Panic("goa bug: unknown data structure type")

TypeDef(a, it, d) ==
    IF d > StackLimit THEN StackOverflow
    ELSE CASE a.Type.tag = "Primitive" -> GoTypeName(a.Type, d + 1)
           [] a.Type.tag = "Array" -> Prepend(<<91, 93>>, TypeDef(a.Type.ElemType, it, d + 1))
           [] a.Type.tag = "Object" -> SourceCode(a, it, d + 1)
           [] IsNamed(a.Type) -> Prepend(<<42>>, GoTypeName(a.Type, d + 1))
           [] OTHER -> Text(<<>>)

(***************************************************************************)
(* The arguments the lowering functions are run on.                        *)
(***************************************************************************)
Kinds == {"Boolean", "Integer", "Number", "String"}

NamedTypes ==
    { UserType(<<97, 99, 99, 116>>),          \* acct
      UserType(<<98, 95, 105, 100>>),         \* b_id
      MediaType(<<109, 101, 100, 105, 97>>) } \* media

\* The types without a component; "Hash" is a kind no Primitive should have.
LeafTypes ==
    {Primitive(k) : k \in Kinds \cup {"Hash"}} \cup NamedTypes \cup {UnknownType}

\* Objects of at most one field, called name.
InnerObjects ==
    {Attribute(Object(<<>>), {})} \cup
    { Attribute(Object(<<110, 97, 109, 101>> :> Attribute(t, {})), req) :
          t \in {Primitive("String"), MediaType(<<109, 101, 100, 105, 97>>)},
          req \in SUBSET {<<110, 97, 109, 101>>} }

\* base, and the arrays nested at most n deep over it.
RECURSIVE Chain(_, _)
Chain(n, base) ==
    IF n = 0 THEN base
    ELSE base \cup {Attribute(Array(a), {}) : a \in Chain(n - 1, base)}

FieldNames ==
    { <<105, 100>>,       \* id
      <<73, 100>>,        \* Id
      <<105, 68>>,        \* iD
      <<105, 95, 100>> }  \* i_d

FieldTypes ==
    { Attribute(Primitive("Integer"), {}),
      Attribute(Primitive("Hash"), {}),
      Attribute(UserType(<<97, 99, 99, 116>>), {}),
      Attribute(Array(Attribute(MediaType(<<109, 101, 100, 105, 97>>), {})), {}),
      Attribute(Object(<<110, 97, 109, 101>> :> Attribute(Primitive("String"), {})),
                {<<110, 97, 109, 101>>}) }

Objects ==
    { Attribute(Object(f), req) :
          f \in UNION {[F -> FieldTypes] : F \in {S \in SUBSET FieldNames :
                                                      Cardinality(S) <= MaxFields}},
          req \in SUBSET FieldNames }

Attributes ==
    Chain(MaxDepth, {Attribute(t, {}) : t \in LeafTypes} \cup InnerObjects)
        \cup {o \in Objects : o.Required \subseteq DOMAIN o.Type.fields}

\* The key sets of the maps a call ranges over.
RECURSIVE KeySets(_)
KeySets(a) ==
    CASE a.Type.tag = "Array" -> KeySets(a.Type.ElemType)
      [] a.Type.tag = "Object" ->
             {DOMAIN a.Type.fields} \cup
                 UNION {KeySets(a.Type.fields[n]) : n \in DOMAIN a.Type.fields}
      [] OTHER -> {}

KeyOrders(K) ==
    {s \in [1..Cardinality(K) -> K] : \A i, j \in 1..Cardinality(K) : s[i] = s[j] => i = j}

\* The orders a run can range over the maps of a in: one per key set.
Iterations(a) ==
    LET KS == KeySets(a)
    IN  {it \in [KS -> UNION {KeyOrders(K) : K \in KS}] :
             \A K \in KS : it[K] \in KeyOrders(K)}

(***************************************************************************)
(* Specification: one call of SourceCode, TypeDef or GoTypeName.           *)
(***************************************************************************)
InitLower ==
    /\ pc = "call"
    /\ \/ fn = "SourceCode" /\ arg \in Attributes \cup NamedTypes
       \/ fn = "TypeDef" /\ arg \in Attributes
       \/ fn = "GoTypeName" /\ arg \in {a.Type : a \in Attributes}
    /\ iter = <<>>
    /\ ret = <<>>
    /\ str = <<>>
    /\ firstUpper = FALSE
    /\ b = <<>>
    /\ res = <<>>

SourceCodeCall ==
    /\ pc = "call"
    /\ fn = "SourceCode"
    /\ \E it \in Iterations(Definition(arg)) :
           /\ iter' = it
           /\ ret' = SourceCode(arg, it, 1)
    /\ pc' = "done"
    /\ UNCHANGED <<str, firstUpper, b, res, fn, arg>>

TypeDefCall ==
    /\ pc = "call"
    /\ fn = "TypeDef"
    /\ \E it \in Iterations(arg) :
           /\ iter' = it
           /\ ret' = TypeDef(arg, it, 1)
    /\ pc' = "done"
    /\ UNCHANGED <<str, firstUpper, b, res, fn, arg>>

GoTypeNameCall ==
    /\ pc = "call"
    /\ fn = "GoTypeName"
    /\ ret' = GoTypeName(arg, 1)
    /\ pc' = "done"
    /\ UNCHANGED <<str, firstUpper, b, res, fn, arg, iter>>

NextLower == SourceCodeCall \/ TypeDefCall \/ GoTypeNameCall

SpecLower == InitLower /\ [][NextLower]_vars


(***************************************************************************)
(* Vocabulary of the properties of Goify.                                  *)
(***************************************************************************)
\* The code points a UTF-8 byte string encodes.
RECURSIVE Runes(_)
Runes(s) ==
    IF Len(s) = 0 THEN <<>>
    ELSE IF s[1] < 128
    THEN <<s[1]>> \o Runes(SubSeq(s, 2, Len(s)))
    ELSE IF s[1] < 224
    THEN <<(s[1] - 192) * 64 + (s[2] - 128)>> \o Runes(SubSeq(s, 3, Len(s)))
    ELSE <<(s[1] - 224) * 4096 + (s[2] - 128) * 64 + (s[3] - 128)>>
             \o Runes(SubSeq(s, 4, Len(s)))

IsUpperRune(r) ==
    r \in 65..90 \/ r \in 192..214 \/ r \in 216..222 \/ r \in {376, 924}

IsLowerRune(r) ==
    r \in 97..122 \/ r = 181 \/ r \in 223..246 \/ r \in 248..255

\* A letter that has a counterpart in the other case.
HasCaseCounterpart(r) == IsLetter(r) /\ ToUpper(r) # ToLower(r)

IsKept(c) == IsLetter(c) \/ IsDigit(c)

\* The positions of str whose byte is a letter or a digit, in ascending order.
KeptPositions(s) ==
    LET Test(i) == IsKept(s[i])
    IN  SelectSeq([i \in 1..Len(s) |-> i], Test)

IsAscii(s) == \A i \in 1..Len(s) : s[i] < 128

AsciiUpper(c) == IF c \in 97..122 THEN c - 32 ELSE c

AsciiLower(c) == IF c \in 65..90 THEN c + 32 ELSE c

\* str without the bytes that are neither letter, digit nor underscore.
Stripped(s) ==
    LET Test(c) == IsKept(c) \/ c = 95
    IN  SelectSeq(s, Test)

(***************************************************************************)
(* Properties of Goify, checked under SpecGoify.                           *)
(***************************************************************************)
\* C1 (as stated): the result of Goify is non-empty, holds only letters and
\* digits, and the case of its first character is the one firstUpper names,
\* for every input.
C1_IdentifierTotality ==
    pc = "done" =>
        /\ Len(res) > 0
        /\ \A i \in 1..Len(Runes(res)) :
               IsLetter(Runes(res)[i]) \/ IsDigit(Runes(res)[i])
        /\ IF firstUpper THEN IsUpperRune(Runes(res)[1])
                         ELSE IsLowerRune(Runes(res)[1])

\* C1 (amended): the result of Goify is non-empty and holds only letters,
\* digits and "_"; it is "_v" when str has no letter or digit; a "_" occurs
\* only in "_v" or as the last character after a reserved word; otherwise
\* the first character is the first letter or digit of str, in the case
\* firstUpper names when that letter has a counterpart in the other case
\* and unchanged when it is a digit or a letter without one.
C1_IdentifierTotalityAmended ==
    pc = "done" =>
        LET out == Runes(res)
            K == KeptPositions(str)
        IN  /\ Len(res) > 0
            /\ \A i \in 1..Len(out) :
                   \/ IsLetter(out[i])
                   \/ IsDigit(out[i])
                   \/ /\ out[i] = 95
                      /\ \/ res = <<95, 118>>
                         \/ i = Len(out) /\ SubSeq(res, 1, Len(res) - 1) \in reserved
            /\ IF Len(K) = 0
               THEN res = <<95, 118>>
               ELSE LET first == str[K[1]]
                    IN  IF HasCaseCounterpart(first)
                        THEN /\ out[1] \in {ToUpper(first), ToLower(first)}
                             /\ IF firstUpper THEN IsUpperRune(out[1])
                                              ELSE IsLowerRune(out[1])
                        ELSE out[1] = first

\* C1 witness: Goify has run on a non-empty string without letter or digit
\* and returned the placeholder.
C1_Witness ==
    /\ pc = "done"
    /\ Len(str) > 0
    /\ Len(KeptPositions(str)) = 0
    /\ res = <<95, 118>>

\* C2: the result of Goify is never an entry of the reserved table; the
\* buffer that is a reserved word is returned with "_" appended, and the
\* result of Goify on a reserved word differs from the word.
C2_ReservedDisambiguation ==
    pc = "done" =>
        /\ res \notin reserved
        /\ b \in reserved => res = b \o <<95>>
        /\ str \in reserved => res # str

\* C2 witness: Goify has run on a reserved word with firstUpper false and
\* returned the word with the suffix.
C2_Witness ==
    /\ pc = "done"
    /\ str \in reserved
    /\ ~firstUpper
    /\ res = str \o <<95>>

\* C6 (as stated): the first character of the result of Goify is a letter
\* or "_", never a digit.
C6_FirstIsLetterOrUnderscore ==
    pc = "done" => IsLetter(Runes(res)[1]) \/ Runes(res)[1] = 95

\* C9: on ASCII input the loop writes one character per letter or digit of
\* str and nothing else (no underscore); the first is in the case firstUpper
\* names; each later one is in upper case when an underscore lies between it
\* and the letter or digit before it, and as in str otherwise; the other
\* bytes change nothing: Goify of str without them is the same result.
\* Goify("user_id", true) = "UserId" and Goify("user_id", false) = "userId".
C9_CamelCaseScan ==
    (pc = "done" /\ IsAscii(str)) =>
        LET K == KeptPositions(str)
        IN  /\ Len(b) = Len(K)
            /\ \A j \in 1..Len(K) :
                   b[j] = IF j = 1
                          THEN IF firstUpper THEN AsciiUpper(str[K[1]])
                                             ELSE AsciiLower(str[K[1]])
                          ELSE IF \E i \in (K[j - 1] + 1)..(K[j] - 1) : str[i] = 95
                          THEN AsciiUpper(str[K[j]])
                          ELSE str[K[j]]
            /\ \A j \in 1..Len(b) : b[j] # 95
            /\ Goify(Stripped(str), firstUpper) = res
            /\ str = <<117, 115, 101, 114, 95, 105, 100>> =>
                   res = IF firstUpper THEN <<85, 115, 101, 114, 73, 100>>
                                       ELSE <<117, 115, 101, 114, 73, 100>>

\* C9 witness: Goify("user_id", true) has returned "UserId".
C9_Witness ==
    /\ pc = "done"
    /\ str = <<117, 115, 101, 114, 95, 105, 100>>
    /\ firstUpper
    /\ res = <<85, 115, 101, 114, 73, 100>>

(***************************************************************************)
(* Vocabulary of the properties of the lowering functions.                 *)
(***************************************************************************)
\* sub occurs in text.
Contains(text, sub) ==
    \E i \in 1..(Len(text) - Len(sub) + 1) : SubSeq(text, i, i + Len(sub) - 1) = sub

\* x comes before y in lexicographic order of their bytes.
LexBefore(x, y) ==
    \E k \in 1..(Len(y)) :
        /\ k <= Len(x) + 1
        /\ \A i \in 1..(k - 1) : x[i] = y[i]
        /\ k = Len(x) + 1 \/ x[k] < y[k]

\* The names of K in ascending lexicographic order.
Ascending(K) ==
    CHOOSE s \in KeyOrders(K) : \A i, j \in 1..Len(s) : i < j => LexBefore(s[i], s[j])

\* An attribute built only from Primitive (of the four kinds), Array, Object
\* and named types.
RECURSIVE WellFormed(_)
WellFormed(a) ==
    CASE a.Type.tag = "Primitive" -> a.Type.kind \in Kinds
      [] a.Type.tag = "Array" -> WellFormed(a.Type.ElemType)
      [] a.Type.tag = "Object" ->
             \A n \in DOMAIN a.Type.fields : WellFormed(a.Type.fields[n])
      [] IsNamed(a.Type) -> TRUE
      [] OTHER -> FALSE

\* The DataType the call dispatches on.
TopType == IF fn = "GoTypeName" THEN arg ELSE Definition(arg).Type

\* A DataType that is no variant of the model, or a Primitive of no kind.
Malformed(t) ==
    \/ t.tag \notin {"Primitive", "Array", "Object", "UserType", "MediaType"}
    \/ t.tag = "Primitive" /\ t.kind \notin Kinds

\* SourceCode has run on an Object.
LoweredObject ==
    /\ pc = "done"
    /\ fn = "SourceCode"
    /\ Definition(arg).Type.tag = "Object"

\* The json annotation of the field name, with the marker or without.
Annotation(name, marker) ==
    <<32, 96, 106, 115, 111, 110, 58, 34>> \o name \o marker \o <<34, 96, 10>>

OnlyAsciiLettersAndDigits(s) ==
    \A i \in 1..Len(s) : s[i] \in 48..57 \/ s[i] \in 65..90 \/ s[i] \in 97..122

\* x and y are the same but for the case of their first letter.
SameButFirstCase(x, y) ==
    /\ Len(x) = Len(y)
    /\ Len(x) > 0
    /\ AsciiLower(x[1]) = AsciiLower(y[1])
    /\ \A i \in 2..Len(x) : x[i] = y[i]

(***************************************************************************)
(* Properties of the lowering functions, checked under SpecLower.          *)
(***************************************************************************)
\* C3: whatever order the map hands its keys out in, SourceCode of an Object
\* returns the same text, and that text is one field line per field name,
\* in ascending lexicographic order of the names.
C3_OrderIndependence ==
    LoweredObject =>
        LET def == Definition(arg)
            keys == Ascending(DOMAIN def.Type.fields)
            lines == StructFields(def, keys, 1, iter, 1)
        IN  /\ \A it \in Iterations(def) : SourceCode(arg, it, 1) = ret
            /\ ret.kind = "text" =>
                   ret.text = <<115, 116, 114, 117, 99, 116, 32, 123, 10>>
                                  \o lines.text \o <<125>>

\* C3 witness: SourceCode has returned a struct of two fields whose names
\* the map handed out in descending order.
C3_Witness ==
    /\ LoweredObject
    /\ ret.kind = "text"
    /\ Cardinality(DOMAIN Definition(arg).Type.fields) = 2
    /\ iter[DOMAIN Definition(arg).Type.fields]
           # Ascending(DOMAIN Definition(arg).Type.fields)

\* C4: in the text SourceCode returns for an Object, the json annotation of
\* each field is the field's original name, followed by ",omitempty" if and
\* only if IsRequired of the name is false.
C4_RequiredOptional ==
    (LoweredObject /\ ret.kind = "text") =>
        LET def == Definition(arg)
        IN  \A f \in DOMAIN def.Type.fields :
                LET with == Annotation(f, <<44, 111, 109, 105, 116, 101, 109, 112, 116, 121>>)
                    without == Annotation(f, <<>>)
                IN  IF f \in def.Required
                    THEN Contains(ret.text, without) /\ ~Contains(ret.text, with)
                    ELSE Contains(ret.text, with) /\ ~Contains(ret.text, without)

\* C4 witness: SourceCode has returned a struct with a required field and a
\* field that is not required.
C4_Witness ==
    /\ LoweredObject
    /\ ret.kind = "text"
    /\ \E f, g \in DOMAIN Definition(arg).Type.fields :
           f \in Definition(arg).Required /\ g \notin Definition(arg).Required

\* C5 (as stated): on types built from the four variants, TypeDef and
\* SourceCode end without exhausting the stack, an array whose element is
\* the named type N is "[]*" and Goify(N.Name, true), and the line of a field
\* whose type is N has the type "*" and Goify(N.Name, true).
C5_NamedTypesByReference ==
    (pc = "done" /\ fn \in {"SourceCode", "TypeDef"} /\ WellFormed(Definition(arg))) =>
        LET t == Definition(arg).Type
        IN  /\ ret.kind # "overflow"
            /\ (t.tag = "Array" /\ IsNamed(t.ElemType.Type)) =>
                   ret = Text(<<91, 93, 42>> \o Goify(t.ElemType.Type.Name, TRUE))
            /\ t.tag = "Object" =>
                   \A f \in DOMAIN t.fields :
                       IsNamed(t.fields[f].Type) =>
                           /\ ret.kind = "text"
                           /\ Contains(ret.text,
                                  <<9>> \o Goify(f, TRUE) \o <<32, 42>>
                                      \o Goify(t.fields[f].Type.Name, TRUE)
                                      \o <<32, 96, 106, 115, 111, 110>>)

\* C7 (as stated): SourceCode, TypeDef and GoTypeName panic when the type
\* they are given is no variant of the model or a Primitive of no kind.
C7_InvariantViolationsFatal ==
    (pc = "done" /\ Malformed(TopType)) => ret.kind = "panic"

\* C8 (as stated): on types built from the four variants SourceCode returns
\* text, and for an Array that text is "[]" and TypeDef of the element.
C8_SourceCodeTotal ==
    (pc = "done" /\ fn = "SourceCode" /\ WellFormed(Definition(arg))) =>
        /\ ret.kind = "text"
        /\ Definition(arg).Type.tag = "Array" =>
               ret = Prepend(<<91, 93>>, TypeDef(Definition(arg).Type.ElemType, iter, 1))

\* C10 (as stated): any two distinct field names of an Object are emitted
\* under distinct Go field identifiers.
C10_CollisionFree ==
    (LoweredObject /\ ret.kind = "text") =>
        \A f, g \in DOMAIN Definition(arg).Type.fields :
            f # g => Goify(f, TRUE) # Goify(g, TRUE)

\* C10 (amended): two distinct field names of an Object are emitted under
\* distinct Go field identifiers when both consist of ASCII letters and
\* digits only and they differ in more than the case of their first letter.
C10_CollisionFreeAmended ==
    (LoweredObject /\ ret.kind = "text") =>
        \A f, g \in DOMAIN Definition(arg).Type.fields :
            ( /\ f # g
              /\ OnlyAsciiLettersAndDigits(f)
              /\ OnlyAsciiLettersAndDigits(g)
              /\ ~SameButFirstCase(f, g) ) =>
                /\ Goify(f, TRUE) # Goify(g, TRUE)
                /\ Contains(ret.text, <<9>> \o Goify(f, TRUE) \o <<32>>)
                /\ Contains(ret.text, <<9>> \o Goify(g, TRUE) \o <<32>>)

\* C10 witness: SourceCode has returned a struct with the fields id and iD.
C10_Witness ==
    /\ LoweredObject
    /\ ret.kind = "text"
    /\ {<<105, 100>>, <<105, 68>>} \subseteq DOMAIN Definition(arg).Type.fields

=============================================================================
